---- MODULE Spec2Model ----
(***************************************************************************)
(* A model of pengux/godo, a client for DigitalOcean's v1 API.             *)
(*                                                                         *)
(* Every method of Client validates its arguments, formats an endpoint     *)
(* with fmt.Sprintf, hands it to doGet (which appends the credentials,     *)
(* issues http.Get, reads the body and json.Unmarshal-s it into the        *)
(* method's DOResp struct) and then branches on DOResp.Status.             *)
(*                                                                         *)
(* A Go string is a sequence of tokens (TLA+ strings); "" is <<>>.  The    *)
(* literals of the source are cut at '?', '&' and after "key=" so that the *)
(* shape of a URL can be inspected; the values callers pass are single     *)
(* tokens that hold none of these characters.                              *)
(***************************************************************************)
EXTENDS Integers, Sequences, FiniteSets, TLC

\* Largest integer a caller passes as an id, priority, port or weight.
MaxID == 1
\* Longest list of ssh key ids a caller passes.
MaxKeys == 2

VARIABLES client, inv, halted

vars == <<client, inv, halted>>

\* The goroutines that call methods on the one client.
Callers == {"main", "other"}
\* The goroutine of a sequential program.
MainCallers == {"main"}

----------------------------------------------------------------------------
\* Go values as fmt sees them: a dynamic type and a value.

IntV(n) == [t |-> "int", s |-> <<>>, n |-> n]
StrV(s) == [t |-> "string", s |-> s, n |-> 0]
\* A value that is neither an int nor a string (a float64 such as 1.5).
FloatV == [t |-> "float64", s |-> <<"1.5">>, n |-> 0]

Verbs == {"%d", "%s", "%v"}

\* The text of a value under its default format.
Plain(v) == IF v.t = "int" THEN <<ToString(v.n)>> ELSE v.s

\* fmt's rendering of one operand under one verb: %v takes anything, %d an
\* integer, %s a string; any other pairing prints %!verb(type=value).
VerbLetter(verb) == IF verb = "%d" THEN "d" ELSE IF verb = "%s" THEN "s" ELSE "v"

BadVerb(verb, v) == <<"%!" \o VerbLetter(verb) \o "(" \o v.t \o "=">> \o Plain(v) \o <<")">>

Format(verb, v) ==
    IF verb = "%v" THEN Plain(v)
    ELSE IF verb = "%d" /\ v.t = "int" THEN Plain(v)
    ELSE IF verb = "%s" /\ v.t = "string" THEN Plain(v)
    ELSE BadVerb(verb, v)

RECURSIVE ExtraList(_)
ExtraList(args) ==
    IF args = <<>> THEN <<>>
    ELSE <<args[1].t \o "=">> \o Plain(args[1])
         \o (IF Len(args) > 1 THEN <<", ">> ELSE <<>>) \o ExtraList(Tail(args))

\* fmt.Sprintf: the format is a sequence of literal tokens and verbs; operands
\* are consumed left to right, a verb without an operand prints
\* %!verb(MISSING), operands left over print %!(EXTRA type=value, ...).
RECURSIVE Sprintf(_, _)
Sprintf(format, args) ==
    IF format = <<>>
    THEN IF args = <<>> THEN <<>> ELSE <<"%!(EXTRA ">> \o ExtraList(args) \o <<")">>
    ELSE IF Head(format) \in Verbs
         THEN IF args = <<>>
              THEN <<"%!" \o VerbLetter(Head(format)) \o "(MISSING)">> \o Sprintf(Tail(format), args)
              ELSE Format(Head(format), Head(args)) \o Sprintf(Tail(format), Tail(args))
         ELSE <<Head(format)>> \o Sprintf(Tail(format), args)

\* strings.Contains(s, sub) for a one-token sub.
Contains(s, sub) == \E i \in 1..Len(s) : s[i] = sub

\* strings.Join(a, sep) over a list of strings.
RECURSIVE Join(_, _)
Join(a, sep) ==
    IF a = <<>> THEN <<>>
    ELSE IF Len(a) = 1 THEN a[1]
    ELSE a[1] \o <<sep>> \o Join(Tail(a), sep)

\* net.IP.String() of a 4-byte address; a nil IP prints "<nil>".
IPString(IP) ==
    IF Len(IP) = 0 THEN <<"<nil>">>
    ELSE <<ToString(IP[1]) \o "." \o ToString(IP[2]) \o "." \o ToString(IP[3]) \o "." \o ToString(IP[4])>>

----------------------------------------------------------------------------
\* Constants of the package.

StatusOK == "OK"
StatusError == "ERROR"
APIURL == <<"https://api.digitalocean.com/v1">>

----------------------------------------------------------------------------
\* What callers pass and what the server answers.

IDs == 0..MaxID
Names == {<<>>, <<"foo">>}
Slugs == {<<>>, <<"slug">>}
\* An interface{} identifier: an int or a string.
AnyIDs == {IntV(n) : n \in 1..MaxID} \cup {StrV(<<"example.com">>)}
\* An interface{} argument of any dynamic type.
AnyValues == AnyIDs \cup {FloatV}
AllKeys == [i \in 1..MaxKeys |-> <<ToString(10 + i)>>]
KeyLists == {SubSeq(AllKeys, 1, k) : k \in 0..MaxKeys}
IPs == {<<>>, <<10, 0, 0, 1>>}
RecordTypes == {<<>>, <<"A">>}
Datas == {<<>>, <<"1.2.3.4">>}
ClientIDs == {<<"cid1">>, <<"cid2">>}
APIKeys == {<<"key1">>}
\* The errors http.Get returns.
TransportErrors == {<<"dial tcp: i/o timeout">>, <<"no such host">>}

\* A decoded record (Droplet, Domain, DomainRecord, Image, Event, ...): the
\* fields the envelope's payload carries.
ZeroRec == [ID |-> 0, Name |-> <<>>]
SomeRec == [ID |-> 5, Name |-> <<"foo">>]

\* A response body: bytes that are not JSON for the envelope (json = FALSE),
\* or a JSON object with its status, message and payload fields.
Garbage == [json |-> FALSE, status |-> "", message |-> <<>>, rec |-> ZeroRec, event_id |-> 0, list |-> <<>>]
JSON(status, message, full) ==
    [json |-> TRUE, status |-> status, message |-> message,
     rec |-> IF full THEN SomeRec ELSE ZeroRec,
     event_id |-> IF full THEN 7 ELSE 0,
     list |-> IF full THEN <<SomeRec>> ELSE <<>>]
Bodies ==
    {Garbage}
    \cup {JSON(StatusOK, <<>>, f) : f \in BOOLEAN}
    \cup {JSON(StatusError, m, FALSE) : m \in {<<>>, <<"not found">>}}
    \cup {JSON(StatusError, <<"not found">>, TRUE)}
    \cup {JSON(st, <<>>, TRUE) : st \in {"", "PENDING"}}

----------------------------------------------------------------------------
\* The state of one method invocation.

NilErr == [nil |-> TRUE, src |-> "none", text |-> <<>>]
Err(src, text) == [nil |-> FALSE, src |-> src, text |-> text]
\* The zero result of every method: a nil pointer, a nil slice, event id 0.
ZeroRet == [ptr |-> "nil", rec |-> ZeroRec, n |-> 0, list |-> <<>>]
ZeroResp == [Status |-> "", Message |-> <<>>, rec |-> ZeroRec, EventID |-> 0, list |-> <<>>]

Idle ==
    [pc |-> "idle", op |-> "", kind |-> "", args |-> <<>>, url |-> <<>>, sent |-> <<>>,
     errfmt |-> <<>>, errargs |-> <<>>, httperr |-> <<>>, read |-> FALSE,
     readerr |-> FALSE, decoded |-> FALSE,
     body |-> Garbage, DOResp |-> ZeroResp, ret |-> ZeroRet, err |-> NilErr]

\* NewClient: the client holds the two credentials.
NewClient(clientID, apiKey) == [ClientID |-> clientID, APIKey |-> apiKey]

Init ==
    /\ \E clientID \in ClientIDs, apiKey \in APIKeys : client = NewClient(clientID, apiKey)
    /\ inv = [p \in Callers |-> Idle]
    /\ halted = FALSE

----------------------------------------------------------------------------
\* doGet, up to and including the call of http.Get.

\* doGetURL always joining the credentials with '?'.
doGetURLAlwaysQuestion(endpoint) ==
    APIURL \o endpoint \o <<"?">>
    \o Sprintf(<<"client_id=", "%s", "&", "api_key=", "%s">>,
               <<StrV(client.ClientID), StrV(client.APIKey)>>)

\* The URL doGet hands to http.Get for an endpoint.
doGetURL(endpoint) ==
    LET url == APIURL \o endpoint
    IN  (IF ~Contains(url, "?") THEN url \o <<"?">> ELSE url \o <<"&">>)
        \o Sprintf(<<"client_id=", "%s", "&", "api_key=", "%s">>,
                   <<StrV(client.ClientID), StrV(client.APIKey)>>)

\* Caller p is between two calls and the process has not panicked.
Ready(p) == ~halted /\ inv[p].pc = "idle"

\* A method returns before it calls doGet: a validation error and the zero result.
Fail(p, op, kind, args, text) ==
    /\ inv' = [inv EXCEPT ![p] = [Idle EXCEPT !.pc = "done", !.op = op, !.kind = kind,
                                             !.args = args, !.err = Err("validation", text)]]
    /\ UNCHANGED <<client, halted>>

\* Get spending the API key: the client's field is cleared once a URL is built.
GetSpendsKey(p, op, kind, args, endpoint, errfmt, errargs) ==
    /\ inv' = [inv EXCEPT ![p] = [Idle EXCEPT !.pc = "get", !.op = op, !.kind = kind,
                                             !.args = args,
                                             !.url = doGetURL(endpoint),
                                             !.sent = <<doGetURL(endpoint)>>,
                                             !.errfmt = errfmt, !.errargs = errargs]]
    /\ client' = [client EXCEPT !.APIKey = <<>>]
    /\ UNCHANGED halted

\* A method calls doGet(endpoint, &DOResp): the URL is composed and http.Get is
\* called with it.  errfmt and errargs are the format and the operands (but for
\* the server's message) of the error the method builds on an ERROR status.
Get(p, op, kind, args, endpoint, errfmt, errargs) ==
    /\ inv' = [inv EXCEPT ![p] = [Idle EXCEPT !.pc = "get", !.op = op, !.kind = kind,
                                             !.args = args,
                                             !.url = doGetURL(endpoint),
                                             !.sent = <<doGetURL(endpoint)>>,
                                             !.errfmt = errfmt, !.errargs = errargs]]
    /\ UNCHANGED <<client, halted>>

----------------------------------------------------------------------------
\* doGet after http.Get was called, and the method's branch on the status.

\* HTTPGet calling http.Get once more after an error before giving up.
HTTPGetRetries(p) ==
    /\ ~halted
    /\ inv[p].pc = "get"
    /\ \/ \E e \in TransportErrors :
            IF Len(inv[p].sent) < 2
            THEN inv' = [inv EXCEPT ![p].sent = Append(@, inv[p].url)]
            ELSE inv' = [inv EXCEPT ![p].pc = "done", ![p].httperr = e,
                                    ![p].err = Err("transport", e), ![p].ret = ZeroRet]
       \/ inv' = [inv EXCEPT ![p].pc = "read"]
    /\ UNCHANGED <<client, halted>>

\* http.Get returns: an error, which doGet returns and the method hands to its
\* caller with the zero result, or a response whose body is still to be read.
HTTPGet(p) ==
    /\ ~halted
    /\ inv[p].pc = "get"
    /\ \/ \E e \in TransportErrors :
            inv' = [inv EXCEPT ![p].pc = "done", ![p].httperr = e,
                               ![p].err = Err("transport", e), ![p].ret = ZeroRet]
       \/ inv' = [inv EXCEPT ![p].pc = "read"]
    /\ UNCHANGED <<client, halted>>

\* ioutil.ReadAll(resp.Body): an error panics, otherwise the body is in hand.
ReadAll(p) ==
    /\ ~halted
    /\ inv[p].pc = "read"
    /\ \/ /\ inv' = [inv EXCEPT ![p].pc = "panic", ![p].read = TRUE, ![p].readerr = TRUE]
          /\ halted' = TRUE
       \/ /\ \E b \in Bodies :
                inv' = [inv EXCEPT ![p].pc = "unmarshal", ![p].read = TRUE, ![p].body = b]
          /\ UNCHANGED halted
    /\ UNCHANGED client

\* json.Unmarshal into the method's DOResp: the fields the struct declares are
\* set from the keys of the object, the others are ignored.
Decode(kind, b) ==
    [Status |-> b.status, Message |-> b.message,
     rec |-> IF kind = "ptr" THEN b.rec ELSE ZeroRec,
     EventID |-> IF kind = "event" THEN b.event_id ELSE 0,
     list |-> IF kind = "list" THEN b.list ELSE <<>>]

\* Unmarshal handing the decode error to the caller instead of panicking.
UnmarshalReturnsError(p) ==
    /\ ~halted
    /\ inv[p].pc = "unmarshal"
    /\ IF ~inv[p].body.json
       THEN inv' = [inv EXCEPT ![p].pc = "done",
                               ![p].err = Err("decode", <<"invalid character">>)]
       ELSE inv' = [inv EXCEPT ![p].pc = "check", ![p].decoded = TRUE,
                               ![p].DOResp = Decode(inv[p].kind, inv[p].body)]
    /\ UNCHANGED <<client, halted>>

\* json.Unmarshal(body, i): an error panics, otherwise DOResp is filled in and
\* doGet returns nil.
Unmarshal(p) ==
    /\ ~halted
    /\ inv[p].pc = "unmarshal"
    /\ IF ~inv[p].body.json
       THEN /\ inv' = [inv EXCEPT ![p].pc = "panic"]
            /\ halted' = TRUE
       ELSE /\ inv' = [inv EXCEPT ![p].pc = "check", ![p].decoded = TRUE,
                                  ![p].DOResp = Decode(inv[p].kind, inv[p].body)]
            /\ UNCHANGED halted
    /\ UNCHANGED client

\* The payload field of DOResp as the method returns it.
Payload(kind, resp) ==
    [ptr |-> IF kind = "ptr" THEN "set" ELSE "nil",
     rec |-> resp.rec, n |-> resp.EventID, list |-> resp.list]

\* StatusCheck returning the decoded payload beside the error.
StatusCheckKeepsPayload(resp, kind, errfmt, errargs) ==
    IF resp.Status = StatusError
    THEN [ret |-> Payload(kind, resp),
          err |-> Err("api", Sprintf(errfmt, errargs \o <<StrV(resp.Message)>>))]
    ELSE [ret |-> Payload(kind, resp), err |-> NilErr]

\* StatusCheck taking every status but "OK" for an error.
StatusCheckRequiresOK(resp, kind, errfmt, errargs) ==
    IF resp.Status # StatusOK
    THEN [ret |-> ZeroRet, err |-> Err("api", Sprintf(errfmt, errargs \o <<StrV(resp.Message)>>))]
    ELSE [ret |-> Payload(kind, resp), err |-> NilErr]

\* if DOResp.Status == StatusError { return zero, fmt.Errorf(...) }; return payload, nil
StatusCheck(resp, kind, errfmt, errargs) ==
    IF resp.Status = StatusError
    THEN [ret |-> ZeroRet, err |-> Err("api", Sprintf(errfmt, errargs \o <<StrV(resp.Message)>>))]
    ELSE [ret |-> Payload(kind, resp), err |-> NilErr]

\* doGet returned nil: the method checks the status and returns.
Return(p) ==
    /\ ~halted
    /\ inv[p].pc = "check"
    /\ LET r == StatusCheck(inv[p].DOResp, inv[p].kind, inv[p].errfmt, inv[p].errargs)
       IN  inv' = [inv EXCEPT ![p].pc = "done", ![p].ret = r.ret, ![p].err = r.err]
    /\ UNCHANGED <<client, halted>>

\* The caller has the result and is free to call the next method.
Continue(p) ==
    /\ ~halted
    /\ inv[p].pc = "done"
    /\ inv' = [inv EXCEPT ![p] = Idle]
    /\ UNCHANGED <<client, halted>>

----------------------------------------------------------------------------
\* godo.go

GetEventByID(p) ==
    /\ Ready(p)
    /\ \E ID \in IDs :
        Get(p, "GetEventByID", "ptr", [ID |-> IntV(ID)],
            Sprintf(<<"/events/", "%d">>, <<IntV(ID)>>),
            <<"could not ", "get", " event with ID ", "%d", ": ", "%v">>, <<IntV(ID)>>)

GetAllRegions(p) ==
    /\ Ready(p)
    /\ Get(p, "GetAllRegions", "list", <<>>, <<"/regions">>,
        <<"could not ", "get", " regions: ", "%v">>, <<>>)

GetAllSizes(p) ==
    /\ Ready(p)
    /\ Get(p, "GetAllSizes", "list", <<>>, <<"/sizes">>,
        <<"could not ", "get", " sizes: ", "%v">>, <<>>)

----------------------------------------------------------------------------
\* images.go

\* switch ID.(type) { case string, int: ... default: return error }
IsStringOrInt(v) == v.t \in {"string", "int"}

IDTypeError == <<"ID must be either a string or integer">>

DeleteImage(p) ==
    /\ Ready(p)
    /\ \E ID \in AnyValues :
        IF IsStringOrInt(ID)
        THEN Get(p, "DeleteImage", "none", [ID |-> ID],
                 Sprintf(<<"/images/", "%v", "/destroy">>, <<ID>>),
                 <<"could not ", "delete", " image with ID ", "%v", ": ", "%v">>, <<ID>>)
        ELSE Fail(p, "DeleteImage", "none", [ID |-> ID], IDTypeError)

GetAllImages(p) ==
    /\ Ready(p)
    /\ Get(p, "GetAllImages", "list", <<>>, <<"/images">>,
        <<"could not ", "get", " images: ", "%v">>, <<>>)

GetImageByID(p) ==
    /\ Ready(p)
    /\ \E ID \in AnyValues :
        IF IsStringOrInt(ID)
        THEN Get(p, "GetImageByID", "ptr", [ID |-> ID],
                 Sprintf(<<"/images/", "%v">>, <<ID>>),
                 <<"could not ", "get", " image with ID ", "%v", ": ", "%v">>, <<ID>>)
        ELSE Fail(p, "GetImageByID", "ptr", [ID |-> ID], IDTypeError)

TransferImage(p) ==
    /\ Ready(p)
    /\ \E ID \in AnyValues, regionID \in IDs :
        IF IsStringOrInt(ID)
        THEN Get(p, "TransferImage", "event", [ID |-> ID, regionID |-> regionID],
                 Sprintf(<<"/images/", "%v", "/transfer", "?", "region_id=", "%d">>,
                         <<ID, IntV(regionID)>>),
                 <<"could not ", "transfer", " image with ID ", "%v", ": ", "%v">>, <<ID>>)
        ELSE Fail(p, "TransferImage", "event", [ID |-> ID, regionID |-> regionID], IDTypeError)

----------------------------------------------------------------------------
\* droplets.go

\* The NewDroplet values callers pass.
NewDroplets ==
    [Name : Names, SizeID : IDs, SizeSlug : Slugs, ImageID : IDs, ImageSlug : Slugs,
     RegionID : IDs, RegionSlug : Slugs, SSHKeyIDs : KeyLists,
     PrivateNetworking : BOOLEAN, BackupsEnabled : BOOLEAN]

\* The endpoint CreateDroplet builds from a NewDroplet that passed validation.
CreateDropletEndpoint(n) ==
    Sprintf(<<"/droplets/new", "?", "name=", "%s">>, <<StrV(n.Name)>>)
    \o (IF n.SizeID # 0
        THEN Sprintf(<<"&", "size_id=", "%d">>, <<IntV(n.SizeID)>>)
        ELSE <<"&", "size_slug=">> \o n.SizeSlug)
    \o (IF n.ImageID # 0
        THEN Sprintf(<<"&", "image_id=", "%d">>, <<IntV(n.ImageID)>>)
        ELSE <<"&", "image_slug=">> \o n.ImageSlug)
    \o (IF n.RegionID # 0
        THEN Sprintf(<<"&", "region_id=", "%d">>, <<IntV(n.RegionID)>>)
        ELSE <<"&", "region_slug=">> \o n.RegionSlug)
    \o (IF Len(n.SSHKeyIDs) > 0
        THEN <<"&", "ssh_key_ids=">> \o Join(n.SSHKeyIDs, ",")
        ELSE <<>>)
    \o (IF n.PrivateNetworking THEN <<"&", "private_networking=", "true">> ELSE <<>>)
    \o (IF n.BackupsEnabled THEN <<"&", "backups_enabled=", "true">> ELSE <<>>)

\* CreateDropletValidate without its check of the region selector.
CreateDropletValidateNoRegion(n) ==
    IF n.SizeID = 0 /\ n.SizeSlug = <<>> THEN <<"size ID or slug must be set">>
    ELSE IF n.ImageID = 0 /\ n.ImageSlug = <<>> THEN <<"image ID or slug must be set">>
    ELSE <<>>

\* The validation of CreateDroplet: the error it returns, or <<>> when the
\* request passes.
CreateDropletValidate(n) ==
    IF n.SizeID = 0 /\ n.SizeSlug = <<>> THEN <<"size ID or slug must be set">>
    ELSE IF n.ImageID = 0 /\ n.ImageSlug = <<>> THEN <<"image ID or slug must be set">>
    ELSE IF n.RegionID = 0 /\ n.RegionSlug = <<>> THEN <<"region ID or slug must be set">>
    ELSE <<>>

CreateDroplet(p) ==
    /\ Ready(p)
    /\ \E n \in NewDroplets :
        IF CreateDropletValidate(n) # <<>>
        THEN Fail(p, "CreateDroplet", "ptr", n, CreateDropletValidate(n))
        ELSE Get(p, "CreateDroplet", "ptr", n, CreateDropletEndpoint(n),
                 <<"could not ", "create", " droplet: ", "%v">>, <<>>)

DeleteDropletByID(p) ==
    /\ Ready(p)
    /\ \E ID \in IDs :
        Get(p, "DeleteDropletByID", "event", [ID |-> IntV(ID)],
            Sprintf(<<"/droplets/", "%d", "/destroy">>, <<IntV(ID)>>),
            <<"could not ", "delete", " droplet with ID ", "%d", ": ", "%v">>, <<IntV(ID)>>)

GetAllDroplets(p) ==
    /\ Ready(p)
    /\ Get(p, "GetAllDroplets", "list", <<>>, <<"/droplets">>,
        <<"could not ", "get", " droplets: ", "%v">>, <<>>)

GetDropletByID(p) ==
    /\ Ready(p)
    /\ \E ID \in IDs :
        Get(p, "GetDropletByID", "ptr", [ID |-> IntV(ID)],
            Sprintf(<<"/droplets/", "%d">>, <<IntV(ID)>>),
            <<"could not ", "get", " droplet with ID ", "%d", ": ", "%v">>, <<IntV(ID)>>)

RebootDroplet(p) ==
    /\ Ready(p)
    /\ \E ID \in IDs :
        Get(p, "RebootDroplet", "event", [ID |-> IntV(ID)],
            Sprintf(<<"/droplets/", "%d", "/reboot">>, <<IntV(ID)>>),
            <<"could not ", "reboot", " droplet with ID ", "%d", ": ", "%v">>, <<IntV(ID)>>)

PowerCycleDroplet(p) ==
    /\ Ready(p)
    /\ \E ID \in IDs :
        Get(p, "PowerCycleDroplet", "event", [ID |-> IntV(ID)],
            Sprintf(<<"/droplets/", "%d", "/power_cycle">>, <<IntV(ID)>>),
            <<"could not ", "reboot", " droplet with ID ", "%d", ": ", "%v">>, <<IntV(ID)>>)

ShutDownDroplet(p) ==
    /\ Ready(p)
    /\ \E ID \in IDs :
        Get(p, "ShutDownDroplet", "event", [ID |-> IntV(ID)],
            Sprintf(<<"/droplets/", "%d", "/shutdown">>, <<IntV(ID)>>),
            <<"could not ", "shut down", " droplet with ID ", "%d", ": ", "%v">>, <<IntV(ID)>>)

PowerOffDroplet(p) ==
    /\ Ready(p)
    /\ \E ID \in IDs :
        Get(p, "PowerOffDroplet", "event", [ID |-> IntV(ID)],
            Sprintf(<<"/droplets/", "%d", "/power_off">>, <<IntV(ID)>>),
            <<"could not ", "power off", " droplet with ID ", "%d", ": ", "%v">>, <<IntV(ID)>>)

PowerOnDroplet(p) ==
    /\ Ready(p)
    /\ \E ID \in IDs :
        Get(p, "PowerOnDroplet", "event", [ID |-> IntV(ID)],
            Sprintf(<<"/droplets/", "%d", "/power_on">>, <<IntV(ID)>>),
            <<"could not ", "power on", " droplet with ID ", "%d", ": ", "%v">>, <<IntV(ID)>>)

ResetRootPassDroplet(p) ==
    /\ Ready(p)
    /\ \E ID \in IDs :
        Get(p, "ResetRootPassDroplet", "event", [ID |-> IntV(ID)],
            Sprintf(<<"/droplets/", "%d", "/password_reset">>, <<IntV(ID)>>),
            <<"could not ", "reset root's password for", " droplet with ID ", "%d", ": ", "%v">>,
            <<IntV(ID)>>)

\* The endpoint ResizeDroplet builds for a size of type string or int.
ResizeDropletEndpoint(ID, size) ==
    Sprintf(<<"/droplets/", "%d", "/resize">>, <<IntV(ID)>>)
    \o (IF size.t = "string"
        THEN Sprintf(<<"&", "size_slug=", "%s">>, <<size>>)
        ELSE Sprintf(<<"&", "size_id=", "%d">>, <<size>>))

\* ResizeAccepts without the default case of the type switch.
ResizeAcceptsAny(size) == TRUE

\* switch size.(type) { case string: ... case int: ... default: return error }
ResizeAccepts(size) == size.t \in {"string", "int"}

ResizeDroplet(p) ==
    /\ Ready(p)
    /\ \E ID \in IDs, size \in AnyValues :
        IF ResizeAccepts(size)
        THEN Get(p, "ResizeDroplet", "event", [ID |-> IntV(ID), size |-> size],
                 ResizeDropletEndpoint(ID, size),
                 <<"could not ", "resize", " the droplet with ID ", "%d", ": ", "%v">>,
                 <<IntV(ID)>>)
        ELSE Fail(p, "ResizeDroplet", "event", [ID |-> IntV(ID), size |-> size],
                  <<"size must be either a string or integer">>)

TakeSnapshotOnDroplet(p) ==
    /\ Ready(p)
    /\ \E ID \in IDs, name \in Names :
        Get(p, "TakeSnapshotOnDroplet", "event", [ID |-> IntV(ID), name |-> name],
            Sprintf(<<"/droplets/", "%d", "/snapshot">>, <<IntV(ID)>>)
            \o (IF name # <<>> THEN Sprintf(<<"&", "name=", "%s">>, <<StrV(name)>>) ELSE <<>>),
            <<"could not ", "take snapshot of", " droplet with ID ", "%d", ": ", "%v">>,
            <<IntV(ID)>>)

RestoreDroplet(p) ==
    /\ Ready(p)
    /\ \E ID \in IDs, imageID \in IDs :
        Get(p, "RestoreDroplet", "event", [ID |-> IntV(ID), imageID |-> imageID],
            Sprintf(<<"/droplets/", "%d", "/restore", "?", "image_id=", "%d">>,
                    <<IntV(ID), IntV(imageID)>>),
            <<"could not ", "restore", " droplet with ID ", "%d", ": ", "%v">>, <<IntV(ID)>>)

RebuildDroplet(p) ==
    /\ Ready(p)
    /\ \E ID \in IDs, imageID \in IDs :
        Get(p, "RebuildDroplet", "event", [ID |-> IntV(ID), imageID |-> imageID],
            Sprintf(<<"/droplets/", "%d", "/rebuild", "?", "image_id=", "%d">>,
                    <<IntV(ID), IntV(imageID)>>),
            <<"could not ", "rebuild", " droplet with ID ", "%d", ": ", "%v">>, <<IntV(ID)>>)

RenameDroplet(p) ==
    /\ Ready(p)
    /\ \E ID \in IDs, name \in Names :
        Get(p, "RenameDroplet", "event", [ID |-> IntV(ID), name |-> name],
            Sprintf(<<"/droplets/", "%d", "/rename", "?", "name=", "%s">>,
                    <<IntV(ID), StrV(name)>>),
            <<"could not ", "rename", " droplet with ID ", "%d", ": ", "%v">>, <<IntV(ID)>>)

----------------------------------------------------------------------------
\* domains.go

\* The DomainRecord values callers pass.
DomainRecords ==
    [ID : IDs, RecordType : RecordTypes, Name : Names, Data : Datas,
     Priority : IDs, Port : IDs, Weight : IDs]

CreateDomain(p) ==
    /\ Ready(p)
    /\ \E name \in Names, IP \in IPs :
        IF name = <<>>
        THEN Fail(p, "CreateDomain", "ptr", [name |-> name, IP |-> IP], <<"name must be set">>)
        ELSE IF Len(IP) = 0
        THEN Fail(p, "CreateDomain", "ptr", [name |-> name, IP |-> IP],
                  <<"IP address must be set and valid">>)
        ELSE Get(p, "CreateDomain", "ptr", [name |-> name, IP |-> IP],
                 Sprintf(<<"/domains/new", "?", "name=", "%s", "&", "ip_address=", "%s">>,
                         <<StrV(name), StrV(IPString(IP))>>),
                 <<"could not ", "create", " domain: ", "%v">>, <<>>)

DeleteDomainByID(p) ==
    /\ Ready(p)
    /\ \E ID \in AnyValues :
        Get(p, "DeleteDomainByID", "none", [ID |-> ID],
            Sprintf(<<"/domains/", "%v", "/destroy">>, <<ID>>),
            <<"could not ", "delete", " domain with ID ", "%v", ": ", "%v">>, <<ID>>)

GetAllDomains(p) ==
    /\ Ready(p)
    /\ Get(p, "GetAllDomains", "list", <<>>, <<"/domains">>,
        <<"could not ", "get", " domains: ", "%v">>, <<>>)

GetDomainByID(p) ==
    /\ Ready(p)
    /\ \E ID \in IDs :
        Get(p, "GetDomainByID", "ptr", [ID |-> IntV(ID)],
            Sprintf(<<"/domains/", "%d">>, <<IntV(ID)>>),
            <<"could not ", "get", " domain with ID ", "%d", ": ", "%v">>, <<IntV(ID)>>)

\* RecordOptions appending the priority whatever its value.
RecordOptionsAlwaysPriority(r) ==
    (IF r.Name # <<>> THEN Sprintf(<<"&", "name=", "%s">>, <<StrV(r.Name)>>) ELSE <<>>)
    \o Sprintf(<<"&", "priority=", "%d">>, <<IntV(r.Priority)>>)
    \o (IF r.Port # 0 THEN Sprintf(<<"&", "port=", "%d">>, <<IntV(r.Port)>>) ELSE <<>>)
    \o (IF r.Weight # 0 THEN Sprintf(<<"&", "weight=", "%d">>, <<IntV(r.Weight)>>) ELSE <<>>)

\* The optional fields CreateDomainRecord and UpdateRecordByDomain append.
RecordOptions(r) ==
    (IF r.Name # <<>> THEN Sprintf(<<"&", "name=", "%s">>, <<StrV(r.Name)>>) ELSE <<>>)
    \o (IF r.Priority # 0 THEN Sprintf(<<"&", "priority=", "%d">>, <<IntV(r.Priority)>>) ELSE <<>>)
    \o (IF r.Port # 0 THEN Sprintf(<<"&", "port=", "%d">>, <<IntV(r.Port)>>) ELSE <<>>)
    \o (IF r.Weight # 0 THEN Sprintf(<<"&", "weight=", "%d">>, <<IntV(r.Weight)>>) ELSE <<>>)

\* The validation of CreateDomainRecord: its error, or <<>>.
CreateDomainRecordValidate(r) ==
    IF r.RecordType = <<>> THEN <<"record type must be set">>
    ELSE IF r.Data = <<>> THEN <<"data value must be set">>
    ELSE <<>>

CreateDomainRecord(p) ==
    /\ Ready(p)
    /\ \E ID \in AnyValues, r \in DomainRecords :
        IF CreateDomainRecordValidate(r) # <<>>
        THEN Fail(p, "CreateDomainRecord", "ptr", [domainID |-> ID, r |-> r],
                  CreateDomainRecordValidate(r))
        ELSE Get(p, "CreateDomainRecord", "ptr", [domainID |-> ID, r |-> r],
                 Sprintf(<<"/domains/", "%v", "/records/new", "?", "record_type=", "%s",
                           "&", "data=", "%s">>,
                         <<ID, StrV(r.RecordType), StrV(r.Data)>>)
                 \o RecordOptions(r),
                 <<"could not ", "create", " record for domain ", "%v", ": ", "%v">>, <<ID>>)

GetAllRecordsByDomain(p) ==
    /\ Ready(p)
    /\ \E domainID \in AnyValues :
        Get(p, "GetAllRecordsByDomain", "list", [domainID |-> domainID],
            Sprintf(<<"/domains/", "%v", "/records">>, <<domainID>>),
            <<"could not ", "get", " records for domain ", "%v", ": ", "%v">>, <<domainID>>)

GetRecordByDomain(p) ==
    /\ Ready(p)
    /\ \E domainID \in AnyValues, ID \in IDs :
        Get(p, "GetRecordByDomain", "ptr", [domainID |-> domainID, ID |-> IntV(ID)],
            Sprintf(<<"/domains/", "%v", "/records/", "%d">>, <<domainID, IntV(ID)>>),
            <<"could not ", "get", " record for domain ", "%v", " with ID ", "%d", ": ", "%v">>,
            <<domainID, IntV(ID)>>)

\* UpdateRecordByDomainValidate without its check of the record ID.
UpdateRecordByDomainValidateNoID(r) ==
    IF r.RecordType = <<>> THEN <<"record type must be set">>
    ELSE IF r.Data = <<>> THEN <<"data value must be set">>
    ELSE <<>>

\* The validation of UpdateRecordByDomain: its error, or <<>>.
UpdateRecordByDomainValidate(r) ==
    IF r.ID = 0 THEN <<"record ID must be set">>
    ELSE IF r.RecordType = <<>> THEN <<"record type must be set">>
    ELSE IF r.Data = <<>> THEN <<"data value must be set">>
    ELSE <<>>

\* The endpoint UpdateRecordByDomain builds: a format with three verbs and
\* four operands.
UpdateRecordByDomainEndpoint(domainID, r) ==
    Sprintf(<<"/domains/", "%v", "/records/new", "?", "record_type=", "%s", "&", "data=", "%s">>,
            <<domainID, IntV(r.ID), StrV(r.RecordType), StrV(r.Data)>>)
    \o RecordOptions(r)

UpdateRecordByDomain(p) ==
    /\ Ready(p)
    /\ \E domainID \in AnyValues, r \in DomainRecords :
        IF UpdateRecordByDomainValidate(r) # <<>>
        THEN Fail(p, "UpdateRecordByDomain", "ptr", [domainID |-> domainID, r |-> r],
                  UpdateRecordByDomainValidate(r))
        ELSE Get(p, "UpdateRecordByDomain", "ptr", [domainID |-> domainID, r |-> r],
                 UpdateRecordByDomainEndpoint(domainID, r),
                 <<"could not ", "create", " record ", "%d", " for domain ", "%v", ": ", "%v">>,
                 <<IntV(r.ID), domainID>>)

DeleteRecordByDomain(p) ==
    /\ Ready(p)
    /\ \E domainID \in AnyValues, ID \in IDs :
        Get(p, "DeleteRecordByDomain", "none", [domainID |-> domainID, ID |-> IntV(ID)],
            Sprintf(<<"/domains/", "%v", "/records/", "%d", "/destroy">>, <<domainID, IntV(ID)>>),
            <<"could not ", "delete", " record ", "%d", " for domain with ID ", "%v", ": ", "%v">>,
            <<domainID, IntV(ID)>>)

----------------------------------------------------------------------------
\* A method call by caller p.
Call(p) ==
    \/ GetEventByID(p) \/ GetAllRegions(p) \/ GetAllSizes(p)
    \/ DeleteImage(p) \/ GetAllImages(p) \/ GetImageByID(p) \/ TransferImage(p)
    \/ CreateDroplet(p) \/ DeleteDropletByID(p) \/ GetAllDroplets(p) \/ GetDropletByID(p)
    \/ RebootDroplet(p) \/ PowerCycleDroplet(p) \/ ShutDownDroplet(p) \/ PowerOffDroplet(p)
    \/ PowerOnDroplet(p) \/ ResetRootPassDroplet(p) \/ ResizeDroplet(p)
    \/ TakeSnapshotOnDroplet(p) \/ RestoreDroplet(p) \/ RebuildDroplet(p) \/ RenameDroplet(p)
    \/ CreateDomain(p) \/ DeleteDomainByID(p) \/ GetAllDomains(p) \/ GetDomainByID(p)
    \/ CreateDomainRecord(p) \/ GetAllRecordsByDomain(p) \/ GetRecordByDomain(p)
    \/ UpdateRecordByDomain(p) \/ DeleteRecordByDomain(p)

\* The rest of a call: doGet's steps and the method's return.
Step(p) == HTTPGet(p) \/ ReadAll(p) \/ Unmarshal(p) \/ Return(p) \/ Continue(p)

Next == \E p \in MainCallers : Call(p) \/ Step(p)

Spec == Init /\ [][Next]_vars

\* Two goroutines calling methods of the same client, a method of each file.
CallSome(p) == GetEventByID(p) \/ GetImageByID(p) \/ ResizeDroplet(p) \/ CreateDomain(p)

NextConcurrent == \E p \in Callers : CallSome(p) \/ Step(p)

SpecConcurrent == Init /\ [][NextConcurrent]_vars

----------------------------------------------------------------------------
\* Reading URLs and invocations.

\* s ends with the tokens of t.
EndsWith(s, t) == Len(s) >= Len(t) /\ SubSeq(s, Len(s) - Len(t) + 1, Len(s)) = t

\* The key occurs in the URL, directly followed by the tokens of val.
HasParam(u, key, val) ==
    \E i \in 1..Len(u) : u[i] = key /\ i + Len(val) <= Len(u) /\ SubSeq(u, i + 1, i + Len(val)) = val

\* The invocation of caller p issued a request.
Sent(p) == inv[p].sent # <<>>

\* The invocation of caller p has returned to its caller.
Returned(p) == inv[p].pc = "done"

\* The invocation returned the zero result and an error made before doGet.
FailedLocally(p) ==
    /\ Returned(p)
    /\ inv[p].sent = <<>>
    /\ inv[p].ret = ZeroRet
    /\ ~inv[p].err.nil
    /\ inv[p].err.src = "validation"

----------------------------------------------------------------------------
\* Claims.

\* A NewDroplet with one of its three selectors given neither as id nor as slug.
MissingSelector(n) ==
    \/ n.SizeID = 0 /\ n.SizeSlug = <<>>
    \/ n.ImageID = 0 /\ n.ImageSlug = <<>>
    \/ n.RegionID = 0 /\ n.RegionSlug = <<>>

\* C1: CreateDroplet with a size, image or region selector whose id is 0 and
\* whose slug is empty returns nil and a validation error, and no HTTP request
\* is issued at any point of the call.
C1_MissingSelectorFailsLocally ==
    \A p \in Callers :
        (inv[p].op = "CreateDroplet" /\ MissingSelector(inv[p].args)) => FailedLocally(p)

\* A CreateDroplet whose size and image are given and whose region is not has returned.
C1_Witness ==
    \E p \in Callers :
        /\ inv[p].op = "CreateDroplet" /\ Returned(p)
        /\ inv[p].args.SizeID # 0 /\ inv[p].args.ImageSlug # <<>>
        /\ inv[p].args.RegionID = 0 /\ inv[p].args.RegionSlug = <<>>

\* C2: CreateDroplet with an empty Name fails before any network call is made.
C2_EmptyNameFailsLocally ==
    \A p \in Callers :
        (inv[p].op = "CreateDroplet" /\ inv[p].args.Name = <<>>) => FailedLocally(p)

\* An invocation of a domain operation with a required field left empty.
DomainFieldMissing(p) ==
    \/ /\ inv[p].op = "CreateDomain"
       /\ (inv[p].args.name = <<>> \/ Len(inv[p].args.IP) = 0)
    \/ /\ inv[p].op = "CreateDomainRecord"
       /\ (inv[p].args.r.RecordType = <<>> \/ inv[p].args.r.Data = <<>>)
    \/ /\ inv[p].op = "UpdateRecordByDomain"
       /\ (inv[p].args.r.ID = 0 \/ inv[p].args.r.RecordType = <<>> \/ inv[p].args.r.Data = <<>>)

\* C3: CreateDomain with an empty name or IP, CreateDomainRecord with an empty
\* record type or data, and UpdateRecordByDomain with record ID 0, an empty
\* record type or empty data return nil and an error without any HTTP request.
C3_DomainValidation ==
    \A p \in Callers : DomainFieldMissing(p) => FailedLocally(p)

\* An UpdateRecordByDomain whose only missing field is the record ID has returned.
C3_Witness ==
    \E p \in Callers :
        /\ inv[p].op = "UpdateRecordByDomain" /\ Returned(p)
        /\ inv[p].args.r.ID = 0 /\ inv[p].args.r.RecordType # <<>> /\ inv[p].args.r.Data # <<>>

\* The operations that take the id of the resource they act on as ID.
ByIDOps ==
    {"GetEventByID", "DeleteImage", "GetImageByID", "TransferImage", "DeleteDropletByID",
     "GetDropletByID", "RebootDroplet", "PowerCycleDroplet", "ShutDownDroplet",
     "PowerOffDroplet", "PowerOnDroplet", "ResetRootPassDroplet", "ResizeDroplet",
     "TakeSnapshotOnDroplet", "RestoreDroplet", "RebuildDroplet", "RenameDroplet",
     "DeleteDomainByID", "GetDomainByID", "GetRecordByDomain", "DeleteRecordByDomain"}

\* The payload of the JSON object b as an operation of this kind returns it.
PayloadOf(kind, b) ==
    [ptr |-> IF kind = "ptr" THEN "set" ELSE "nil",
     rec |-> IF kind = "ptr" THEN b.rec ELSE ZeroRec,
     n |-> IF kind = "event" THEN b.event_id ELSE 0,
     list |-> IF kind = "list" THEN b.list ELSE <<>>]

\* C4: once the response is decoded, status "ERROR" gives the zero result and
\* an error whose text holds the server's message (and the requested id, for a
\* by-id operation); status "OK" gives the decoded payload and a nil error;
\* never a payload and an error.
C4_EnvelopeDecides ==
    \A p \in Callers :
        (Returned(p) /\ inv[p].decoded) =>
            /\ inv[p].body.status = StatusError =>
                /\ inv[p].ret = ZeroRet
                /\ ~inv[p].err.nil
                /\ EndsWith(inv[p].err.text, inv[p].body.message)
                /\ inv[p].op \in ByIDOps =>
                       \E i \in 1..Len(inv[p].err.text) :
                           <<inv[p].err.text[i]>> = Plain(inv[p].args.ID)
            /\ inv[p].body.status = StatusOK =>
                /\ inv[p].err.nil
                /\ inv[p].ret = PayloadOf(inv[p].kind, inv[p].body)
            /\ ~(inv[p].ret # ZeroRet /\ ~inv[p].err.nil)

\* GetDropletByID has returned on {"status":"ERROR","message":"not found"}.
C4_Witness ==
    \E p \in Callers :
        /\ inv[p].op = "GetDropletByID" /\ Returned(p) /\ inv[p].decoded
        /\ inv[p].body.status = StatusError /\ inv[p].body.message = <<"not found">>
        /\ inv[p].body.rec = SomeRec

\* The credentials as doGet writes them.
Credentials == <<"client_id=">> \o client.ClientID \o <<"&", "api_key=">> \o client.APIKey

\* C5: every URL handed to http.Get ends with client_id=<ClientID>&api_key=<APIKey>,
\* joined by '&' to an endpoint that carries query parameters and by '?' to one
\* that carries none.
C5_CredentialsLast ==
    \A p \in Callers : \A i \in 1..Len(inv[p].sent) :
        LET u == inv[p].sent[i]
            n == Len(u) - Len(Credentials)
        IN  /\ EndsWith(u, Credentials)
            /\ n >= 2
            /\ u[n] = (IF Contains(SubSeq(u, 1, n - 1), "?") THEN "&" ELSE "?")

\* RenameDroplet, whose endpoint carries ?name=, has issued its request.
C5_Witness ==
    \E p \in Callers :
        /\ inv[p].op = "RenameDroplet" /\ Sent(p)
        /\ HasParam(inv[p].sent[1], "name=", <<"foo">>)

\* C6: ResizeDroplet sends an int size as size_id and a string size as
\* size_slug; for a size of any other type it returns event id 0 and a local
\* type error, and issues no HTTP request.
C6_ResizeBySizeType ==
    \A p \in Callers :
        inv[p].op = "ResizeDroplet" =>
            LET size == inv[p].args.size
            IN  /\ size.t = "int" =>
                    /\ Sent(p)
                    /\ HasParam(inv[p].sent[1], "size_id=", <<ToString(size.n)>>)
                    /\ ~Contains(inv[p].sent[1], "size_slug=")
                /\ size.t = "string" =>
                    /\ Sent(p)
                    /\ HasParam(inv[p].sent[1], "size_slug=", size.s)
                    /\ ~Contains(inv[p].sent[1], "size_id=")
                /\ size.t \notin {"int", "string"} =>
                    /\ FailedLocally(p)
                    /\ inv[p].ret.n = 0
                    /\ inv[p].err.text = <<"size must be either a string or integer">>

\* ResizeDroplet has returned for a size that is a float64.
C6_Witness ==
    \E p \in Callers :
        inv[p].op = "ResizeDroplet" /\ Returned(p) /\ inv[p].args.size = FloatV

\* C7: in the URL of CreateDomainRecord and UpdateRecordByDomain the keys name,
\* priority, port and weight occur exactly when the field is non-empty or
\* non-zero; in the URL of CreateDroplet ssh_key_ids, private_networking and
\* backups_enabled occur exactly when the list is non-empty or the flag true.
C7_OptionalFieldsOnlyWhenSet ==
    \A p \in Callers :
        Sent(p) =>
            LET u == inv[p].sent[1]
            IN  /\ inv[p].op \in {"CreateDomainRecord", "UpdateRecordByDomain"} =>
                    LET r == inv[p].args.r
                    IN  /\ Contains(u, "name=") <=> r.Name # <<>>
                        /\ Contains(u, "priority=") <=> r.Priority # 0
                        /\ Contains(u, "port=") <=> r.Port # 0
                        /\ Contains(u, "weight=") <=> r.Weight # 0
                /\ inv[p].op = "CreateDroplet" =>
                    LET n == inv[p].args
                    IN  /\ Contains(u, "ssh_key_ids=") <=> Len(n.SSHKeyIDs) > 0
                        /\ Contains(u, "private_networking=") <=> n.PrivateNetworking
                        /\ Contains(u, "backups_enabled=") <=> n.BackupsEnabled

\* CreateDomainRecord has issued a request for a record with a port and a
\* zero priority and weight.
C7_Witness ==
    \E p \in Callers :
        /\ inv[p].op = "CreateDomainRecord" /\ Sent(p)
        /\ inv[p].args.r.Priority = 0 /\ inv[p].args.r.Weight = 0
        /\ HasParam(inv[p].sent[1], "port=", <<ToString(inv[p].args.r.Port)>>)

\* C8: the URL of UpdateRecordByDomain addresses the record r.ID of the domain
\* (not the record-creation endpoint) and carries record_type = r.RecordType
\* and data = r.Data.
C8_UpdateAddressesRecord ==
    \A p \in Callers :
        (inv[p].op = "UpdateRecordByDomain" /\ Sent(p)) =>
            LET u == inv[p].sent[1]
                r == inv[p].args.r
            IN  /\ HasParam(u, "/domains/", Plain(inv[p].args.domainID))
                /\ HasParam(u, "/records/", <<ToString(r.ID)>>)
                /\ ~Contains(u, "/records/new")
                /\ HasParam(u, "record_type=", r.RecordType)
                /\ HasParam(u, "data=", r.Data)

\* What each method attempts, in the words its error is to name it by.
OperationVerb(op) ==
    CASE op \in {"GetEventByID", "GetAllRegions", "GetAllSizes", "GetAllImages", "GetImageByID",
                 "GetAllDroplets", "GetDropletByID", "GetAllDomains", "GetDomainByID",
                 "GetAllRecordsByDomain", "GetRecordByDomain"} -> "get"
      [] op \in {"DeleteImage", "DeleteDropletByID", "DeleteDomainByID",
                 "DeleteRecordByDomain"} -> "delete"
      [] op \in {"CreateDroplet", "CreateDomain", "CreateDomainRecord"} -> "create"
      [] op = "TransferImage" -> "transfer"
      [] op = "RebootDroplet" -> "reboot"
      [] op = "PowerCycleDroplet" -> "power cycle"
      [] op = "ShutDownDroplet" -> "shut down"
      [] op = "PowerOffDroplet" -> "power off"
      [] op = "PowerOnDroplet" -> "power on"
      [] op = "ResetRootPassDroplet" -> "reset root's password for"
      [] op = "ResizeDroplet" -> "resize"
      [] op = "TakeSnapshotOnDroplet" -> "take snapshot of"
      [] op = "RestoreDroplet" -> "restore"
      [] op = "RebuildDroplet" -> "rebuild"
      [] op = "RenameDroplet" -> "rename"
      [] op = "UpdateRecordByDomain" -> "update"

\* C9: the error built on an "ERROR" envelope names the operation attempted,
\* and DeleteRecordByDomain's error gives the record id as the record and the
\* domain identifier as the domain.
C9_ErrorNamesOperation ==
    \A p \in Callers :
        (Returned(p) /\ inv[p].err.src = "api") =>
            /\ inv[p].err.text[1] = "could not "
            /\ inv[p].err.text[2] = OperationVerb(inv[p].op)
            /\ inv[p].op = "DeleteRecordByDomain" =>
                /\ HasParam(inv[p].err.text, " record ", Plain(inv[p].args.ID))
                /\ HasParam(inv[p].err.text, " for domain with ID ", Plain(inv[p].args.domainID))

\* C10: a failed read of the body or a body that is not JSON for the envelope
\* panics: the process halts and the call returns nothing; an error of
\* http.Get is returned unchanged with the zero result, the body neither read
\* nor decoded.
C10_PanicOrTransportError ==
    /\ halted => ~ENABLED Next
    /\ \A p \in Callers :
        /\ inv[p].pc = "panic" =>
            /\ halted
            /\ inv[p].ret = ZeroRet /\ inv[p].err.nil
            /\ inv[p].readerr \/ (inv[p].read /\ ~inv[p].body.json)
        /\ inv[p].readerr => inv[p].pc = "panic"
        /\ (inv[p].read /\ ~inv[p].body.json) => inv[p].pc \in {"unmarshal", "panic"}
        /\ inv[p].httperr # <<>> =>
            /\ Returned(p)
            /\ inv[p].err = Err("transport", inv[p].httperr)
            /\ inv[p].ret = ZeroRet
            /\ ~inv[p].read /\ ~inv[p].decoded

\* A call has panicked on a body that was read and is not JSON.
C10_Witness ==
    \E p \in Callers :
        inv[p].pc = "panic" /\ inv[p].read /\ ~inv[p].readerr /\ ~inv[p].body.json /\ halted

\* The arguments of the invocation fail the method's local validation.
LocallyInvalid(p) ==
    \/ inv[p].op = "CreateDroplet" /\ MissingSelector(inv[p].args)
    \/ DomainFieldMissing(p)
    \/ /\ inv[p].op \in {"DeleteImage", "GetImageByID", "TransferImage"}
       /\ inv[p].args.ID.t \notin {"int", "string"}
    \/ /\ inv[p].op = "ResizeDroplet"
       /\ inv[p].args.size.t \notin {"int", "string"}

\* C11: an invocation issues at most one HTTP request: one when its arguments
\* pass local validation and none when they fail; a transport error, a panic
\* or an "ERROR" envelope is never followed by a second request, and the read,
\* the decode and the status check come after the request.
C11_OneRequestPerCall ==
    \A p \in Callers :
        /\ Len(inv[p].sent) <= 1
        /\ inv[p].pc # "idle" => (Len(inv[p].sent) = 0 <=> LocallyInvalid(p))
        /\ inv[p].pc = "idle" => Len(inv[p].sent) = 0
        /\ (inv[p].httperr # <<>> \/ inv[p].pc = "panic" \/ inv[p].err.src = "api") =>
               Len(inv[p].sent) = 1
        /\ (inv[p].read \/ inv[p].decoded \/ inv[p].pc \in {"read", "unmarshal", "check"}) =>
               Len(inv[p].sent) = 1
        /\ inv[p].decoded => inv[p].read

\* An invocation has returned the error of http.Get after its one request.
C11_Witness ==
    \E p \in Callers :
        Returned(p) /\ inv[p].httperr # <<>> /\ Len(inv[p].sent) = 1

\* Two invocations of the same method with the same arguments issue the same
\* request, and return the same result and error once they got the same
\* answer (the same error of http.Get, or the same body).
SameCallSameOutcome(p, q) ==
    (inv[p].op = inv[q].op /\ inv[p].op # "" /\ inv[p].args = inv[q].args) =>
        /\ inv[p].sent = inv[q].sent
        /\ ( /\ Returned(p) /\ Returned(q)
             /\ inv[p].httperr = inv[q].httperr
             /\ inv[p].body = inv[q].body ) =>
               (inv[p].ret = inv[q].ret /\ inv[p].err = inv[q].err)

\* A step leaves the client as it is and changes the invocation of one caller only.
OwnStateOnly ==
    /\ client' = client
    /\ \A p \in Callers : \A q \in Callers \ {p} : inv'[p] # inv[p] => inv'[q] = inv[q]

\* C12: no method writes the client's credentials or another caller's
\* invocation, so under any interleaving of two callers the URL an invocation
\* requests is that of its arguments and the credentials the client was made
\* with, and its result that of its own answer.
C12_CallsIndependent ==
    /\ [](\A p \in Callers : \A q \in Callers \ {p} : SameCallSameOutcome(p, q))
    /\ [](\A p \in Callers : \A i \in 1..Len(inv[p].sent) : EndsWith(inv[p].sent[i], Credentials))
    /\ [][OwnStateOnly]_vars

\* Both callers are in the middle of a call, one past its request and the
\* other past the decode of its answer.
C12_Witness ==
    /\ inv["main"].pc = "check" /\ inv["main"].op = "ResizeDroplet"
    /\ inv["other"].pc = "read" /\ inv["other"].op = "ResizeDroplet"
    /\ inv["main"].args = inv["other"].args

\* The keys of the query parameters the methods and doGet write.
ParamKeys ==
    {"name=", "size_id=", "size_slug=", "image_id=", "image_slug=", "region_id=",
     "region_slug=", "ssh_key_ids=", "private_networking=", "backups_enabled=",
     "ip_address=", "record_type=", "data=", "priority=", "port=", "weight=",
     "client_id=", "api_key="}

\* C13: every URL handed to http.Get is path '?' key=value ('&' key=value)*:
\* it holds exactly one '?', no '&' comes before it, and every parameter and
\* both credentials come after it.
C13_WellFormedURL ==
    \A p \in Callers : \A i \in 1..Len(inv[p].sent) :
        LET u == inv[p].sent[i]
        IN  /\ Cardinality({j \in 1..Len(u) : u[j] = "?"}) = 1
            /\ \A j \in 1..Len(u) :
                   (u[j] = "&" \/ u[j] \in ParamKeys) => \E k \in 1..(j - 1) : u[k] = "?"
            /\ \A j \in 1..Len(u) :
                   u[j] \in {"?", "&"} => (j < Len(u) /\ u[j + 1] \in ParamKeys)

\* C14 as stated: a call whose answer was decoded returns a nil error only when
\* the status of the envelope is "OK".
C14_SuccessOnlyIfOK ==
    \A p \in Callers :
        (Returned(p) /\ inv[p].decoded /\ inv[p].err.nil) => inv[p].body.status = StatusOK

\* C14, amended: a call whose answer was decoded returns an error exactly when
\* the status of the envelope is "ERROR"; with any other status, "OK" or not,
\* it returns the payload field and a nil error.
C14_SuccessUnlessError ==
    \A p \in Callers :
        (Returned(p) /\ inv[p].decoded) =>
            /\ inv[p].err.nil <=> inv[p].body.status # StatusError
            /\ inv[p].err.nil => inv[p].ret = PayloadOf(inv[p].kind, inv[p].body)
            /\ ~inv[p].err.nil => (inv[p].err.src = "api" /\ inv[p].ret = ZeroRet)

\* A call has returned the payload of an envelope whose status is neither
\* "OK" nor "ERROR".
C14_Witness ==
    \E p \in Callers :
        /\ Returned(p) /\ inv[p].decoded /\ inv[p].err.nil
        /\ inv[p].body.status \in {"", "PENDING"}
        /\ inv[p].kind = "ptr" /\ inv[p].ret.rec = SomeRec

====
